---- MODULE Spec2Model ----
(***************************************************************************)
(* Model of the match ingestion scripts: parse_games.py (make_id,          *)
(* parse_match, the per-URL store transaction of main) and                 *)
(* get_standings.py (calculate_points).                                    *)
(*                                                                         *)
(* Text is a sequence of code points; a code point is written by name      *)
(* ("A", "A_ACUTE" for U+00C1, "ACUTE" for the combining U+0301,           *)
(* "L_STROKE" for U+0141, "NBSP" for U+00A0, ...).                         *)
(***************************************************************************)
EXTENDS Integers, Sequences, FiniteSets, TLC

VARIABLES
    txt, ident, idpc,       \* SpecId: make_id's argument, its result, call position
    html, parsed, ppc,      \* SpecParse: parse_match's argument, outcome, position
    pc, i, k,               \* main: position, URLs taken so far, index in a for loop
    data, exc,              \* main: the parsed record, the exception raised last
    db, disk,               \* the connection's view of the tables, the committed file
    out,                    \* the Stored / Skipped lines printed so far
    start, prev, ref,       \* history: tables when the URL was taken, the record of
                            \* the URL before and whether it was stored, the tables
                            \* the stored records alone give
    tables, league_prefix,  \* SpecStand: calculate_points's database and prefix,
    standings, spc          \* the rows it returns, its position

idvars == <<txt, ident, idpc>>

parsevars == <<html, parsed, ppc>>

mainvars == <<pc, i, k, data, exc, db, disk, out, start, prev, ref>>

standvars == <<tables, league_prefix, standings, spc>>

vars == <<txt, ident, idpc, html, parsed, ppc,
          pc, i, k, data, exc, db, disk, out, start, prev, ref,
          tables, league_prefix, standings, spc>>

(***************************************************************************)
(* Bounds of the model.                                                    *)
(***************************************************************************)
MaxLen == 2

MaxEvents == 2

MaxDocs == 3

MaxPrefix == 2

(***************************************************************************)
(* Code point tables (unicodedata, str.lower, the re module's \s and \w    *)
(* on str patterns).                                                       *)
(***************************************************************************)
AsciiUpper == {"A", "B", "C", "K", "P", "Q"}

AsciiLower == {"a", "b", "c", "k", "p", "q"}

AsciiDigit == {"0", "1", "2"}

\* the code points of the model
CodePoints ==
    AsciiUpper \cup AsciiLower \cup AsciiDigit \cup
    {"_", " ", "NBSP", ".", "-", ":", "[", "]", "%",
     "A_ACUTE", "a_acute", "ACUTE", "L_STROKE", "l_stroke"}

\* unicodedata.normalize("NFKD", c) of one code point
NFKD(c) ==
    CASE c = "A_ACUTE" -> <<"A", "ACUTE">>
      [] c = "a_acute" -> <<"a", "ACUTE">>
      [] c = "NBSP"    -> <<" ">>
      [] OTHER         -> <<c>>

\* unicodedata.combining(c) # 0
combining(c) == c = "ACUTE"

\* str.lower of one code point
lower(c) ==
    CASE c = "A" -> "a" [] c = "B" -> "b" [] c = "C" -> "c"
      [] c = "K" -> "k" [] c = "P" -> "p" [] c = "Q" -> "q"
      [] c = "A_ACUTE"  -> "a_acute"
      [] c = "L_STROKE" -> "l_stroke"
      [] OTHER -> c

\* str.isspace / \s
isspace(c) == c \in {" ", "NBSP"}

\* the characters [^\w] does not remove: \w of a str pattern is Unicode aware
IsWord(c) ==
    c \in AsciiUpper \cup AsciiLower \cup AsciiDigit \cup {"_"}
         \cup {"A_ACUTE", "a_acute", "L_STROKE", "l_stroke"}

RECURSIVE Flatten(_)
Flatten(ss) == IF ss = <<>> THEN <<>> ELSE Head(ss) \o Flatten(Tail(ss))

\* parse_games.py strip_accents
strip_accents(t) ==
    LET d == Flatten([n \in 1..Len(t) |-> NFKD(t[n])])
    IN  SelectSeq(d, LAMBDA c : ~combining(c))

RECURSIVE LStrip(_)
LStrip(s) == IF s # <<>> /\ isspace(Head(s)) THEN LStrip(Tail(s)) ELSE s

RECURSIVE RStrip(_)
RStrip(s) ==
    IF s # <<>> /\ isspace(s[Len(s)]) THEN RStrip(SubSeq(s, 1, Len(s) - 1)) ELSE s

\* str.strip()
Strip(s) == RStrip(LStrip(s))

\* re.sub(r"\s+", "_", s): every maximal run of whitespace becomes one "_"
RECURSIVE CollapseSpace(_)
CollapseSpace(s) ==
    IF s = <<>> THEN <<>>
    ELSE IF isspace(Head(s)) THEN <<"_">> \o CollapseSpace(LStrip(s))
    ELSE <<Head(s)>> \o CollapseSpace(Tail(s))

\* re.sub(r"[^\w]", "", s)
DropNonWord(s) == SelectSeq(s, IsWord)

\* parse_games.py make_id
make_id(t) ==
    LET a == strip_accents(t)
        l == [n \in 1..Len(a) |-> lower(a[n])]
    IN  DropNonWord(CollapseSpace(Strip(l)))

(***************************************************************************)
(* Python values.  None (and a regex that found nothing) is <<>>, a        *)
(* present value v is <<v>>.  A dict is the sequence of its items in       *)
(* insertion order, each item [k |-> key, v |-> value].                    *)
(***************************************************************************)
None == <<>>

Some(v) == <<v>>

DictHas(d, key) == \E n \in 1..Len(d) : d[n].k = key

DictGet(d, key) == d[CHOOSE n \in 1..Len(d) : d[n].k = key].v

\* d[key] = val: an existing key keeps its place, a new key goes last
DictSet(d, key, val) ==
    IF DictHas(d, key)
    THEN [n \in 1..Len(d) |-> IF d[n].k = key THEN [k |-> key, v |-> val] ELSE d[n]]
    ELSE Append(d, [k |-> key, v |-> val])

DictKeys(d) == {d[n].k : n \in 1..Len(d)}

(***************************************************************************)
(* parse_match.  A document is what the selectors of parse_match read from *)
(* the page:                                                               *)
(*   meta_parts  the h1.Match-meta text split on ","                       *)
(*   teams_el    the texts of the .Match-teams links                       *)
(*   details     the .Match-detailsContainer text by label: the text that  *)
(*               follows each label, None where the label is missing       *)
(*   halftime_score, final_score   the texts of .Match-result              *)
(*   sections    the .Match-statsGrid sections: h2 text and rows, a row    *)
(*               being its number of td cells and the text of the third    *)
(*   timeline    the .MatchTimeline-item entries: the p text and whether   *)
(*               the class list has MatchTimeline-item--home               *)
(***************************************************************************)
\* datetime.strptime(dt_raw, "%d. %m. %Y %H:%M").strftime("%Y-%m-%d")
DateTable ==
    ( "01. 05. 2024 10:00" :> "2024-05-01" ) @@
    ( "01. 05. 2024 18:30" :> "2024-05-01" ) @@
    ( "08. 05. 2024 10:00" :> "2024-05-08" )

RECURSIVE ToInt(_)
\* int() of a text of ASCII digits
ToInt(s) ==
    IF s = <<>> THEN 0
    ELSE 10 * ToInt(SubSeq(s, 1, Len(s) - 1))
         + (CASE s[Len(s)] = "0" -> 0 [] s[Len(s)] = "1" -> 1 [] s[Len(s)] = "2" -> 2)

IsDigits(s) == s # <<>> /\ \A n \in 1..Len(s) : s[n] \in AsciiDigit

\* re.sub(r"\s*\[.*?\]", "", cell): drop [K] and the like
RECURSIVE DropBrackets(_)
DropBrackets(s) ==
    IF s = <<>> THEN <<>>
    ELSE LET r == LStrip(s)
         IN  IF r # <<>> /\ Head(r) = "[" /\ \E j \in 2..Len(r) : r[j] = "]"
             THEN LET j == CHOOSE j \in 2..Len(r) :
                               r[j] = "]" /\ \A m \in 2..(j - 1) : r[m] # "]"
                  IN  DropBrackets(SubSeq(r, j + 1, Len(r)))
             ELSE <<Head(s)>> \o DropBrackets(Tail(s))

\* the longest prefix of s made of characters of class
TakeWhile(s, class) ==
    LET n == CHOOSE n \in 0..Len(s) :
                 /\ \A m \in 1..n : s[m] \in class
                 /\ n = Len(s) \/ s[n + 1] \notin class
    IN  SubSeq(s, 1, n)

\* re.search(label + r"\s*([class]+)", details): group(1), or None
Capture(after, class) ==
    IF after = None THEN None
    ELSE LET rest == after[1]
             skipped == TakeWhile(LStrip(rest), class)
             \* \s* gives back what the class itself can take
             whole == TakeWhile(rest, class)
         IN  IF skipped # <<>> THEN Some(skipped)
             ELSE IF whole # <<>> THEN Some(whole)
             ELSE None

\* [0-9A-Z.]
FacrClass == AsciiUpper \cup AsciiDigit \cup {"."}

\* [^.]
NotPeriodClass == CodePoints \ {"."}

\* \d, for the digits a page has
DigitClass == AsciiDigit

\* the rows of one section written into squad (lines 66-72)
RECURSIVE SquadRows(_, _, _)
SquadRows(squad, section, n) ==
    IF n > Len(section.rows) THEN squad
    ELSE LET row == section.rows[n]
             name == DropBrackets(row.name_cell)
             pid == make_id(name)
             team_id == make_id(section.h2)
         IN  IF row.cols >= 3
             THEN SquadRows(DictSet(squad, <<pid, team_id>>, <<name, section.h2>>),
                            section, n + 1)
             ELSE SquadRows(squad, section, n + 1)

\* 1. all squad players (lines 62-72)
RECURSIVE SquadOf(_, _, _)
SquadOf(squad, sections, n) ==
    IF n > Len(sections) THEN squad
    ELSE SquadOf(SquadRows(squad, sections[n], 1), sections, n + 1)

\* TimelineTeam with every entry attributed to the home team
TimelineTeam_AlwaysHome(li, home_name, guest_name) ==
    [team_name |-> home_name, team_id |-> make_id(home_name)]

\* the team a timeline entry is attributed to (lines 78-79)
TimelineTeam(li, home_name, guest_name) ==
    LET team_name == IF li.home THEN home_name ELSE guest_name
    IN  [team_name |-> team_name,
         team_id |-> IF team_name = home_name THEN make_id(home_name)
                                              ELSE make_id(guest_name)]

\* TimelineStep with the += 1 skipped for a scorer added on the fly
TimelineStep_NewScorerUncounted(st, li, home_name, guest_name) ==
    LET t == TimelineTeam(li, home_name, guest_name)
        key == <<make_id(li.p), t.team_id>>
    IN  IF DictHas(st.squad, key)
        THEN [squad |-> st.squad,
              goal_counts |-> DictSet(st.goal_counts, key,
                                      DictGet(st.goal_counts, key) + 1)]
        ELSE [squad |-> DictSet(st.squad, key, <<li.p, t.team_name>>),
              goal_counts |-> DictSet(st.goal_counts, key, 0)]

\* one timeline entry (lines 77-86); st = [squad, goal_counts]
TimelineStep(st, li, home_name, guest_name) ==
    LET t == TimelineTeam(li, home_name, guest_name)
        key == <<make_id(li.p), t.team_id>>
        new == ~DictHas(st.squad, key)
        squad1 == IF new THEN DictSet(st.squad, key, <<li.p, t.team_name>>)
                         ELSE st.squad
        counts1 == IF new THEN DictSet(st.goal_counts, key, 0) ELSE st.goal_counts
    IN  [squad |-> squad1,
         goal_counts |-> DictSet(counts1, key, DictGet(counts1, key) + 1)]

\* 2. goals from timeline (lines 75-86)
RECURSIVE TimelineOf(_, _, _, _, _)
TimelineOf(st, timeline, n, home_name, guest_name) ==
    IF n > Len(timeline) THEN st
    ELSE TimelineOf(TimelineStep(st, timeline[n], home_name, guest_name),
                    timeline, n + 1, home_name, guest_name)

\* squad and goal_counts as they stand at line 88
Roster(doc) ==
    LET squad == SquadOf(<<>>, doc.sections, 1)
        zero == [n \in 1..Len(squad) |-> [k |-> squad[n].k, v |-> 0]]
    IN  TimelineOf([squad |-> squad, goal_counts |-> zero], doc.timeline, 1,
                   doc.teams_el[1], doc.teams_el[2])

\* the goal totals of a final score text "h:g": None when it is not two integers
ScoreGoals(final_score) ==
    LET colon == {n \in 1..Len(final_score) : final_score[n] = ":"}
        at == CHOOSE n \in colon : TRUE
        h == SubSeq(final_score, 1, at - 1)
        g == SubSeq(final_score, at + 1, Len(final_score))
    IN  IF Cardinality(colon) = 1 /\ IsDigits(h) /\ IsDigits(g)
        THEN [home |-> Some(ToInt(h)), guest |-> Some(ToInt(g))]
        ELSE [home |-> None, guest |-> None]

\* the dict parse_match returns
MatchRecord(doc, date_iso, round_part, venue, spectators, roster) ==
    LET home_name == doc.teams_el[1]
        guest_name == doc.teams_el[2]
        home_id == make_id(home_name)
        guest_id == make_id(guest_name)
        score == ScoreGoals(doc.final_score)
    IN  [game |-> [game_id |-> home_id \o <<"_">> \o guest_id \o <<"_", date_iso, "_">>
                               \o <<round_part>>,
                   facr_game_id |-> Capture(doc.details.number, FacrClass)[1],
                   date |-> date_iso,
                   round |-> round_part,
                   home_team_id |-> home_id,
                   guest_team_id |-> guest_id,
                   venue |-> venue,
                   spectators |-> spectators,
                   halftime_score |-> doc.halftime_score,
                   final_score |-> doc.final_score,
                   home_team_goals |-> score.home,
                   guest_team_goals |-> score.guest],
         teams |-> DictSet(DictSet(<<>>, home_id, home_name), guest_id, guest_name),
         players |-> roster.squad,
         goals |-> roster.goal_counts]

Raise(type) == [ok |-> FALSE, exc |-> type]

\* parse_games.py parse_match: the dict it returns, or the exception it raises
parse_match(doc) ==
    IF doc.meta_parts[1] \notin DOMAIN DateTable THEN Raise("ValueError")
    ELSE IF Len(doc.teams_el) < 2 THEN Raise("ValueError")
    ELSE IF Capture(doc.details.number, FacrClass) = None
         THEN Raise("AttributeError")
    \* line 52: (None or ["", ""]).group(1), and a list has no group
    ELSE IF Capture(doc.details.venue, NotPeriodClass) = None
         THEN Raise("AttributeError")
    ELSE LET round_part == IF Len(doc.meta_parts) > 1 THEN doc.meta_parts[2] ELSE ""
             seen == Capture(doc.details.spectators, DigitClass)
             spectators == IF seen # None THEN ToInt(seen[1]) ELSE 0
         IN  [ok |-> TRUE,
              data |-> MatchRecord(doc, DateTable[doc.meta_parts[1]], round_part,
                                   Strip(Capture(doc.details.venue, NotPeriodClass)[1]),
                                   spectators, Roster(doc))]


(***************************************************************************)
(* The tables of DDL.  teams, players and games are functions of their     *)
(* PRIMARY KEY; goals is a set of rows, each with its AUTOINCREMENT        *)
(* goal_id; seq is the sqlite_sequence entry of goals.                     *)
(***************************************************************************)
EmptyTables == [teams |-> <<>>, players |-> <<>>, games |-> <<>>, goals |-> {}, seq |-> 0]

SetMax(S) == IF S = {} THEN 0 ELSE CHOOSE m \in S : \A n \in S : n <= m

\* PRAGMA foreign_keys = ON: the FOREIGN KEY clauses of DDL hold of the tables
ForeignKeysOk(s) ==
    /\ \A p \in DOMAIN s.players : s.players[p].team_id \in DOMAIN s.teams
    /\ \A g \in DOMAIN s.games :
          /\ s.games[g].home_team_id \in DOMAIN s.teams
          /\ s.games[g].guest_team_id \in DOMAIN s.teams
    /\ \A r \in s.goals :
          /\ r.game_id \in DOMAIN s.games
          /\ r.player_id \in DOMAIN s.players
          /\ r.team_id \in DOMAIN s.teams

\* INSERT OR IGNORE INTO teams (team_id, team_name)
InsertOrIgnoreTeam(s, tid, tname) ==
    IF tid \in DOMAIN s.teams THEN s
    ELSE [s EXCEPT !.teams = (tid :> tname) @@ @]

\* InsertOrReplaceGame as INSERT OR IGNORE
InsertOrIgnoreGame(s, g) ==
    IF g.game_id \in DOMAIN s.games THEN s
    ELSE [s EXCEPT !.games = (g.game_id :> g) @@ @]

\* INSERT OR REPLACE INTO games (...)
InsertOrReplaceGame(s, g) == [s EXCEPT !.games = (g.game_id :> g) @@ @]

\* InsertOrIgnorePlayer as INSERT OR REPLACE
InsertOrReplacePlayer(s, pid, pname, tid, tname) ==
    [s EXCEPT !.players =
         (pid :> [player_name |-> pname, team_id |-> tid, team_name |-> tname]) @@ @]

\* INSERT OR IGNORE INTO players (player_id, player_name, team_id, team_name)
InsertOrIgnorePlayer(s, pid, pname, tid, tname) ==
    IF pid \in DOMAIN s.players THEN s
    ELSE [s EXCEPT !.players =
              (pid :> [player_name |-> pname, team_id |-> tid, team_name |-> tname]) @@ @]

\* DeleteGoals deleting nothing
DeleteGoals_Nothing(s, gid) == s

\* DELETE FROM goals WHERE game_id = ?
DeleteGoals(s, gid) == [s EXCEPT !.goals = {r \in @ : r.game_id # gid}]

\* INSERT INTO goals (game_id, facr_game_id, player_id, team_id, goals_scored)
InsertGoal(s, gid, facr, pid, tid, n) ==
    LET id == SetMax({s.seq} \cup {r.goal_id : r \in s.goals}) + 1
    IN  [s EXCEPT !.goals = @ \cup {[goal_id |-> id, game_id |-> gid,
                                      facr_game_id |-> facr, player_id |-> pid,
                                      team_id |-> tid, goals_scored |-> n]},
                  !.seq = id]

NoData == [game |-> [game_id |-> <<>>], teams |-> <<>>, players |-> <<>>, goals |-> <<>>]

NoExc == [type |-> "", at |-> ""]

\* calculate_points is not running
StandIdle ==
    tables = EmptyTables /\ league_prefix = <<>> /\ standings = <<>> /\ spc = "idle"

\* main is not running
MainIdle ==
    /\ pc = "idle" /\ i = 0 /\ k = 0
    /\ data = NoData /\ exc = NoExc
    /\ db = EmptyTables /\ disk = EmptyTables
    /\ out = <<>>
    /\ start = EmptyTables /\ prev = [stored |-> FALSE, data |-> NoData]
    /\ ref = EmptyTables

(***************************************************************************)
(* SpecId: make_id applied to every text of at most MaxLen code points.    *)
(***************************************************************************)
IdChars == {"A", "a", "A_ACUTE", "L_STROKE", " ", "NBSP", ".", "_", "1"}

Texts(S, n) == UNION {[1..m -> S] : m \in 0..n}

InitId ==
    /\ txt \in Texts(IdChars, MaxLen)
    /\ ident = <<>>
    /\ idpc = "call"
    /\ html = <<>>
    /\ parsed = <<>>
    /\ ppc = "idle"
    /\ MainIdle
    /\ StandIdle

CallMakeId ==
    /\ idpc = "call"
    /\ ident' = make_id(txt)
    /\ idpc' = "returned"
    /\ UNCHANGED <<txt, parsevars, mainvars, standvars>>

NextId == CallMakeId

SpecId == InitId /\ [][NextId]_vars

\* C9: make_id returns only ASCII lowercase letters, ASCII digits and
\* underscores, whatever the text.
C9_AsciiIdentifier ==
    idpc = "returned" =>
        \A n \in 1..Len(ident) : ident[n] \in AsciiLower \cup AsciiDigit \cup {"_"}

(***************************************************************************)
(* SpecParse: parse_match applied to every document of ParseDocs.          *)
(***************************************************************************)
TeamA == <<"A">>

TeamAcute == <<"A_ACUTE">>

TeamB == <<"B">>

TeamC == <<"C">>

PlayerP == <<"P">>

PlayerQ == <<"Q">>

Row(cols, cell) == [cols |-> cols, name_cell |-> cell]

Section(h2, rows) == [h2 |-> h2, rows |-> rows]

Event(p, home) == [p |-> p, home |-> home]

ParseSections ==
    { <<>>,
      <<Section(TeamA, <<Row(3, <<"P", " ", "[", "K", "]">>)>>)>>,
      <<Section(TeamA, <<Row(3, PlayerP), Row(3, PlayerQ)>>),
        Section(TeamB, <<Row(2, PlayerQ), Row(3, <<"p">>)>>)>> }

ParseEvents == {Event(PlayerP, TRUE), Event(PlayerQ, FALSE), Event(PlayerQ, TRUE)}

ParseDocs ==
    [meta_parts : {<<"01. 05. 2024 10:00", "1. kolo">>, <<"01. 05. 2024 18:30">>,
                   <<"1.5.2024">>},
     teams_el : {<<TeamA, TeamB>>, <<TeamAcute, TeamB>>, <<TeamA, TeamA>>},
     details : [number : {None, Some(<<" ", "A", "1", " ">>)},
                venue : {None, Some(<<" ", "B", " ", "C", ".", "K">>)},
                spectators : {None, Some(<<" ", "1", "2">>), Some(<<" ", "K">>)}],
     halftime_score : {<<"0", ":", "0">>},
     final_score : {<<"1", ":", "0">>, <<"1", ":", "2">>, <<"-">>},
     sections : ParseSections,
     timeline : Texts(ParseEvents, MaxEvents)]

InitParse ==
    /\ html \in ParseDocs
    /\ parsed = Raise("")
    /\ ppc = "call"
    /\ txt = <<>>
    /\ ident = <<>>
    /\ idpc = "idle"
    /\ MainIdle
    /\ StandIdle

CallParseMatch ==
    /\ ppc = "call"
    /\ parsed' = parse_match(html)
    /\ ppc' = "returned"
    /\ UNCHANGED <<html, idvars, mainvars, standvars>>

NextParse == CallParseMatch

SpecParse == InitParse /\ [][NextParse]_vars

\* The part of a document the fatal steps of parse_match need: a date-time in
\* the fixed format, two team links and the match number.
Mandatory(doc) ==
    /\ doc.meta_parts[1] \in DOMAIN DateTable
    /\ Len(doc.teams_el) >= 2
    /\ Capture(doc.details.number, FacrClass) # None

\* C6: a document with the mandatory match number but without the venue
\* label and/or the spectator label parses, with venue "" and spectators 0.
C6_OptionalDetailsDefault ==
    (ppc = "returned" /\ Mandatory(html)) =>
        /\ parsed.ok
        /\ html.details.venue = None => parsed.data.game.venue = <<>>
        /\ html.details.spectators = None => parsed.data.game.spectators = 0

\* The (player_id, team_id) pairs of the squad tables of a document.
SquadPairs(doc) ==
    UNION { { <<make_id(DropBrackets(doc.sections[s].rows[r].name_cell)),
                make_id(doc.sections[s].h2)>> :
              r \in {r \in 1..Len(doc.sections[s].rows) :
                         doc.sections[s].rows[r].cols >= 3} } :
            s \in 1..Len(doc.sections) }

\* The (player_id, team_id) pair a timeline entry is attributed to.
EventPair(doc, n) ==
    <<make_id(doc.timeline[n].p),
      IF doc.timeline[n].home THEN make_id(doc.teams_el[1])
                              ELSE make_id(doc.teams_el[2])>>

EventsOf(doc, key) == {n \in 1..Len(doc.timeline) : EventPair(doc, n) = key}

TimelinePairs(doc) == {EventPair(doc, n) : n \in 1..Len(doc.timeline)}

\* C7: the keys of goals are the keys of players, namely the squad pairs plus
\* the timeline pairs, and each count is the number of timeline entries
\* attributed to the pair.
C7_RosterComplete ==
    (ppc = "returned" /\ parsed.ok) =>
        /\ DictKeys(parsed.data.goals) = DictKeys(parsed.data.players)
        /\ DictKeys(parsed.data.players) = SquadPairs(html) \cup TimelinePairs(html)
        /\ \A key \in DictKeys(parsed.data.goals) :
               DictGet(parsed.data.goals, key) = Cardinality(EventsOf(html, key))

\* a squad player without a goal and a scorer outside the squad with two
C7_Witness ==
    /\ ppc = "returned" /\ parsed.ok
    /\ \E key \in SquadPairs(html) : DictGet(parsed.data.goals, key) = 0
    /\ \E key \in TimelinePairs(html) \ SquadPairs(html) :
           DictGet(parsed.data.goals, key) = 2

(***************************************************************************)
(* Spec: main.  The URL list is MaxDocs long; each URL's page is any       *)
(* document of BatchDocs.  The connection runs in the sqlite3 module's     *)
(* default transaction mode: the first INSERT / DELETE of a URL opens a    *)
(* transaction, conn.commit() writes db to disk, conn.rollback() restores  *)
(* db from disk.  Every execute and the commit may raise (an I/O error, a  *)
(* locked database) besides the FOREIGN KEY failures the tables decide.    *)
(***************************************************************************)
RosterA == [sections |-> <<Section(TeamA, <<Row(3, PlayerP)>>)>>,
            timeline |-> <<Event(PlayerP, TRUE)>>]

RosterB == [sections |-> <<Section(TeamB, <<Row(3, PlayerP)>>)>>,
            timeline |-> <<Event(PlayerQ, FALSE), Event(PlayerQ, FALSE)>>]

RosterC == [sections |-> <<Section(TeamC, <<Row(3, PlayerQ)>>)>>,
            timeline |-> <<>>]

Page(meta_parts, teams_el, number, final_score, roster) ==
    [meta_parts |-> meta_parts,
     teams_el |-> teams_el,
     details |-> [number |-> number,
                  venue |-> Some(<<" ", "B", ".">>),
                  spectators |-> Some(<<" ", "1", "2">>)],
     halftime_score |-> <<"0", ":", "0">>,
     final_score |-> final_score,
     sections |-> roster.sections,
     timeline |-> roster.timeline]

BatchDocs ==
    { Page(<<"01. 05. 2024 10:00", "1. kolo">>, x[1], Some(<<" ", "A", "1">>), x[2], x[3]) :
        x \in { y \in {<<TeamA, TeamB>>, <<TeamAcute, TeamB>>}
                      \X {<<"1", ":", "0">>, <<"0", ":", "2">>}
                      \X {RosterA, RosterB, RosterC} :
                  y[1] = <<TeamA, TeamB>> \/ y[2] = <<"1", ":", "0">> } }
    \cup
    { Page(<<"08. 05. 2024 10:00", "2. kolo">>, <<TeamA, TeamB>>,
           Some(<<" ", "A", "2">>), <<"1", ":", "0">>, RosterA),
      Page(<<"08. 05. 2024 10:00", "2. kolo">>, <<TeamA, TeamB>>, None,
           <<"1", ":", "0">>, RosterA) }

Init ==
    /\ pc = "loop" /\ i = 0 /\ k = 0
    /\ html = <<>> /\ data = NoData /\ exc = NoExc
    /\ db = EmptyTables /\ disk = EmptyTables
    /\ out = <<>>
    /\ start = EmptyTables /\ prev = [stored |-> FALSE, data |-> NoData]
    /\ ref = EmptyTables
    /\ txt = <<>> /\ ident = <<>> /\ idpc = "idle"
    /\ parsed = <<>> /\ ppc = "idle"
    /\ StandIdle

LastStored == out # <<>> /\ out[Len(out)] = "Stored"

LastSkipped == out # <<>> /\ out[Len(out)] = "Skipped"

\* cur.execute of a statement that turns the tables s into s1, at position at:
\* it raises, or it leaves s1; next is the position after it
Execute(s1, at, next) ==
    \/ /\ ForeignKeysOk(s1)
       /\ db' = s1
       /\ pc' = next.pc /\ k' = next.k
       /\ UNCHANGED exc
    \/ /\ ~ForeignKeysOk(s1)
       /\ exc' = [type |-> "IntegrityError", at |-> at]
       /\ pc' = "except"
       /\ UNCHANGED <<db, k>>
    \/ /\ exc' = [type |-> "OperationalError", at |-> at]
       /\ pc' = "except"
       /\ UNCHANGED <<db, k>>

\* the position after item n of a for loop over d, which is followed by after
NextItem(d, n, here, after) ==
    IF n < Len(d) THEN [pc |-> here, k |-> n + 1] ELSE after

AfterGame == IF Len(data.players) > 0 THEN [pc |-> "players", k |-> 1]
                                      ELSE [pc |-> "delete", k |-> 0]

AfterDelete == IF Len(data.goals) > 0 THEN [pc |-> "goals", k |-> 1]
                                      ELSE [pc |-> "commit", k |-> 0]

\* lines 160-164: the next URL is fetched and parsed
FetchAndParse ==
    /\ pc = "loop" /\ i < MaxDocs
    /\ i' = i + 1
    /\ start' = db
    /\ prev' = [stored |-> LastStored, data |-> data]
    /\ \E doc \in BatchDocs :
          \/ /\ exc' = [type |-> "RequestException", at |-> "fetch"]
             /\ pc' = "except"
             /\ UNCHANGED <<html, data, k>>
          \/ /\ html' = doc
             /\ parse_match(doc).ok
             /\ data' = parse_match(doc).data
             /\ pc' = "teams" /\ k' = 1
             /\ exc' = NoExc
          \/ /\ html' = doc
             /\ ~parse_match(doc).ok
             /\ exc' = [type |-> parse_match(doc).exc, at |-> "parse"]
             /\ pc' = "except"
             /\ UNCHANGED <<data, k>>
    /\ UNCHANGED <<db, disk, out, ref, idvars, parsed, ppc, standvars>>

\* lines 167-169
InsertTeam ==
    /\ pc = "teams"
    /\ Execute(InsertOrIgnoreTeam(db, data.teams[k].k, data.teams[k].v), "teams",
               NextItem(data.teams, k, "teams", [pc |-> "game", k |-> 0]))
    /\ UNCHANGED <<i, html, data, disk, out, start, prev, ref, idvars, parsed, ppc, standvars>>

\* lines 172-180
UpsertGame ==
    /\ pc = "game"
    /\ Execute(InsertOrReplaceGame(db, data.game), "game", AfterGame)
    /\ UNCHANGED <<i, html, data, disk, out, start, prev, ref, idvars, parsed, ppc, standvars>>

\* lines 183-188
InsertPlayer ==
    /\ pc = "players"
    /\ LET item == data.players[k]
       IN  Execute(InsertOrIgnorePlayer(db, item.k[1], item.v[1], item.k[2], item.v[2]),
                   "players",
                   NextItem(data.players, k, "players", [pc |-> "delete", k |-> 0]))
    /\ UNCHANGED <<i, html, data, disk, out, start, prev, ref, idvars, parsed, ppc, standvars>>

\* line 191
DeleteGameGoals ==
    /\ pc = "delete"
    /\ Execute(DeleteGoals(db, data.game.game_id), "delete", AfterDelete)
    /\ UNCHANGED <<i, html, data, disk, out, start, prev, ref, idvars, parsed, ppc, standvars>>

\* lines 192-197
InsertGameGoal ==
    /\ pc = "goals"
    /\ LET item == data.goals[k]
       IN  Execute(InsertGoal(db, data.game.game_id, data.game.facr_game_id,
                              item.k[1], item.k[2], item.v),
                   "goals",
                   NextItem(data.goals, k, "goals", [pc |-> "commit", k |-> 0]))
    /\ UNCHANGED <<i, html, data, disk, out, start, prev, ref, idvars, parsed, ppc, standvars>>

\* the tables a stored record adds to the tables s: teams and players that are
\* new, the game row, and its goal rows in place of the game's earlier ones
Reconciled(s, rec) ==
    LET gid == rec.game.game_id
        pids == {key[1] : key \in DictKeys(rec.players)}
        first(pid) == rec.players[CHOOSE n \in 1..Len(rec.players) :
                          /\ rec.players[n].k[1] = pid
                          /\ \A m \in 1..(n - 1) : rec.players[m].k[1] # pid]
        base == SetMax({s.seq} \cup {r.goal_id : r \in s.goals})
    IN  [teams |-> [t \in DOMAIN s.teams \cup DictKeys(rec.teams) |->
                       IF t \in DOMAIN s.teams THEN s.teams[t]
                                               ELSE DictGet(rec.teams, t)],
         players |-> [p \in DOMAIN s.players \cup pids |->
                       IF p \in DOMAIN s.players THEN s.players[p]
                       ELSE [player_name |-> first(p).v[1], team_id |-> first(p).k[2],
                             team_name |-> first(p).v[2]]],
         games |-> [g \in DOMAIN s.games \cup {gid} |->
                       IF g = gid THEN rec.game ELSE s.games[g]],
         goals |-> {r \in s.goals : r.game_id # gid} \cup
                   { [goal_id |-> base + n, game_id |-> gid,
                      facr_game_id |-> rec.game.facr_game_id,
                      player_id |-> rec.goals[n].k[1], team_id |-> rec.goals[n].k[2],
                      goals_scored |-> rec.goals[n].v] : n \in 1..Len(rec.goals) },
         seq |-> IF Len(rec.goals) > 0 THEN base + Len(rec.goals) ELSE s.seq]

\* lines 199-200
Commit ==
    /\ pc = "commit"
    /\ \/ /\ disk' = db
          /\ out' = Append(out, "Stored")
          /\ ref' = Reconciled(ref, data)
          /\ pc' = "loop"
          /\ UNCHANGED exc
       \/ /\ exc' = [type |-> "OperationalError", at |-> "commit"]
          /\ pc' = "except"
          /\ UNCHANGED <<disk, out, ref>>
    /\ UNCHANGED <<i, k, html, data, db, start, prev, idvars, parsed, ppc, standvars>>

\* Rollback without conn.rollback()
Rollback_NoRestore ==
    /\ pc = "except"
    /\ out' = Append(out, "Skipped")
    /\ pc' = "loop"
    /\ UNCHANGED <<i, k, html, data, exc, db, disk, start, prev, ref, idvars, parsed, ppc,
                   standvars>>

\* Rollback with the exception leaving the for loop
Rollback_Halt ==
    /\ pc = "except"
    /\ db' = disk
    /\ out' = Append(out, "Skipped")
    /\ pc' = "closed"
    /\ UNCHANGED <<i, k, html, data, exc, disk, start, prev, ref, idvars, parsed, ppc,
                   standvars>>

\* lines 202-204
Rollback ==
    /\ pc = "except"
    /\ db' = disk
    /\ out' = Append(out, "Skipped")
    /\ pc' = "loop"
    /\ UNCHANGED <<i, k, html, data, exc, disk, start, prev, ref, idvars, parsed, ppc, standvars>>

\* line 206
Close ==
    /\ pc = "loop" /\ i = MaxDocs
    /\ pc' = "closed"
    /\ UNCHANGED <<i, k, html, data, exc, db, disk, out, start, prev, ref,
                   idvars, parsed, ppc, standvars>>

Next ==
    \/ FetchAndParse
    \/ InsertTeam
    \/ UpsertGame
    \/ InsertPlayer
    \/ DeleteGameGoals
    \/ InsertGameGoal
    \/ Commit
    \/ Rollback
    \/ Close

Spec == Init /\ [][Next]_vars

\* C1: when a step of a URL's write sequence fails, the tables after the
\* handler are what they were when the URL was taken, whichever step failed.
C1_FailedDocumentLeavesNoWrite ==
    (pc = "loop" /\ LastSkipped) => (db = start /\ disk = start)

\* a goal INSERT failed after the game row was replaced and its goals deleted
C1_Witness ==
    /\ pc = "loop" /\ LastSkipped
    /\ exc = [type |-> "IntegrityError", at |-> "goals"]
    /\ data.game.game_id \in DOMAIN start.games
    /\ start.games[data.game.game_id] # data.game
    /\ \E r \in start.goals : r.game_id = data.game.game_id
    /\ db = start

\* the same record was stored by this URL and by the URL before it
StoredTwice == pc = "loop" /\ LastStored /\ prev.stored /\ prev.data = data

\* the tables without the goal_id column and the AUTOINCREMENT counter
Values(s) ==
    [teams |-> s.teams, players |-> s.players, games |-> s.games,
     goals |-> {[game_id |-> r.game_id, facr_game_id |-> r.facr_game_id,
                 player_id |-> r.player_id, team_id |-> r.team_id,
                 goals_scored |-> r.goals_scored] : r \in s.goals}]

\* C2 as claimed: storing the same record a second time changes no row count
\* and no stored value, the goal_id of the goals rows included.
C2_SecondCallChangesNothing == StoredTwice => db.goals = start.goals

\* C2 as amended: the second call changes no row count and no stored value
\* except goal_id: the game's goal rows are deleted and inserted again under
\* new goal_id values, larger than every goal_id used before.
C2_SecondCallChangesOnlyGoalIds ==
    StoredTwice =>
        /\ Values(db) = Values(start)
        /\ Cardinality(db.goals) = Cardinality(start.goals)
        /\ \A r \in db.goals :
              r.game_id = data.game.game_id =>
                  \A q \in start.goals : q.goal_id < r.goal_id
        /\ \A r \in db.goals : r.game_id # data.game.game_id => r \in start.goals

\* stored twice a record with goal rows, beside another game's rows
C2_Witness ==
    /\ StoredTwice
    /\ Len(data.goals) >= 2
    /\ \E r \in db.goals : r.game_id # data.game.game_id

\* the goal rows of a game, without goal_id
GoalsOfGame(s, gid) ==
    {<<r.player_id, r.team_id, r.goals_scored, r.facr_game_id>> :
        r \in {r \in s.goals : r.game_id = gid}}

\* C3: after a record is stored, the games row of its game_id holds the
\* record's fields and the goals rows of the game_id are one row per pair
\* of the record's goals, whatever rows an earlier record of the game left.
C3_ReingestionReplaces ==
    (pc = "loop" /\ LastStored) =>
        LET gid == data.game.game_id
        IN  /\ gid \in DOMAIN db.games
            /\ db.games[gid] = data.game
            /\ GoalsOfGame(db, gid) =
                   {<<data.goals[n].k[1], data.goals[n].k[2], data.goals[n].v,
                      data.game.facr_game_id>> : n \in 1..Len(data.goals)}
            /\ Cardinality({r \in db.goals : r.game_id = gid}) = Len(data.goals)
            /\ disk = db

\* a second record of a stored game, with another score and other scorers,
\* stored while the first record's goal rows referenced the game row
C3_Witness ==
    /\ pc = "loop" /\ LastStored /\ prev.stored
    /\ prev.data.game.game_id = data.game.game_id
    /\ prev.data.game.final_score # data.game.final_score
    /\ DictKeys(prev.data.goals) \cap DictKeys(data.goals) = {}
    /\ \E r \in start.goals : r.game_id = data.game.game_id

\* C4: every URL of the list is reached, each one prints Stored or Skipped,
\* and the tables are those the stored records alone give, in list order.
C4_BatchIsolation ==
    /\ pc \in {"loop", "closed"} => (Len(out) = i /\ db = ref /\ disk = ref)
    /\ pc = "closed" => i = MaxDocs

\* a stored URL, a skipped one, a stored one; two games in the tables
C4_Witness ==
    /\ pc = "closed"
    /\ out = <<"Stored", "Skipped", "Stored">>
    /\ Cardinality(DOMAIN db.games) = 2

\* C5: a teams or players row, once committed, keeps every attribute and is
\* never deleted, in the file and in the connection's view.
C5_FirstWriterWins ==
    [][ /\ \A t \in DOMAIN disk.teams :
              /\ t \in DOMAIN disk'.teams /\ disk'.teams[t] = disk.teams[t]
              /\ t \in DOMAIN db'.teams /\ db'.teams[t] = disk.teams[t]
        /\ \A p \in DOMAIN disk.players :
              /\ p \in DOMAIN disk'.players /\ disk'.players[p] = disk.players[p]
              /\ p \in DOMAIN db'.players /\ db'.players[p] = disk.players[p] ]_vars

\* a stored record that names a stored team differently and puts a stored
\* player in another team
C5_Witness ==
    /\ pc = "loop" /\ LastStored
    /\ \E n \in 1..Len(data.teams) : disk.teams[data.teams[n].k] # data.teams[n].v
    /\ \E n \in 1..Len(data.players) :
          disk.players[data.players[n].k[1]].team_id # data.players[n].k[2]

RECURSIVE SumGoals(_, _)
\* the sum of the counts of the pairs of team tid in a goals dict
SumGoals(d, tid) ==
    IF d = <<>> THEN 0
    ELSE (IF Head(d).k[2] = tid THEN Head(d).v ELSE 0) + SumGoals(Tail(d), tid)

\* the sum of goals_scored over the stored goal rows of team tid in game gid
StoredGoals(s, gid, tid) ==
    LET found == {r \in s.goals : r.game_id = gid /\ r.team_id = tid}
        sum[R \in SUBSET found] ==
            IF R = {} THEN 0
            ELSE LET r == CHOOSE r \in R : TRUE
                 IN  r.goals_scored + sum[R \ {r}]
    IN  sum[found]

\* the timeline entries of a document attributed to team tid
TeamEvents(doc, tid) == {n \in 1..Len(doc.timeline) : EventPair(doc, n)[2] = tid}

AsciiFold(c) == IF c \in AsciiUpper THEN lower(c) ELSE c

RECURSIVE Like(_, _)
\* text LIKE pattern: % is any run of characters, _ any one character
Like(pattern, text) ==
    IF pattern = <<>> THEN text = <<>>
    ELSE IF Head(pattern) = "%"
         THEN \E n \in 0..Len(text) : Like(Tail(pattern), SubSeq(text, n + 1, Len(text)))
    ELSE /\ text # <<>>
         /\ Head(pattern) = "_" \/ AsciiFold(Head(pattern)) = AsciiFold(Head(text))
         /\ Like(Tail(pattern), Tail(text))

\* CASE WHEN mine > theirs THEN 3 WHEN mine = theirs THEN 1 ELSE 0 END:
\* a comparison with NULL is not true
CasePoints(mine, theirs) ==
    IF mine # None /\ theirs # None /\ mine[1] > theirs[1] THEN 3
    ELSE IF mine # None /\ theirs # None /\ mine[1] = theirs[1] THEN 1
    ELSE 0

\* the rows of the UNION ALL subquery r the game g gives
SideRows(s, g, like_pattern) ==
    LET row == s.games[g]
    IN  (IF row.home_team_goals # None /\ Like(like_pattern, row.facr_game_id)
         THEN {[game |-> g, side |-> "home", team_id |-> row.home_team_id,
                points |-> CasePoints(row.home_team_goals, row.guest_team_goals)]}
         ELSE {})
        \cup
        (IF row.guest_team_goals # None /\ Like(like_pattern, row.facr_game_id)
         THEN {[game |-> g, side |-> "guest", team_id |-> row.guest_team_id,
                points |-> CasePoints(row.guest_team_goals, row.home_team_goals)]}
         ELSE {})

\* SUM(r.points) of a group
SumPoints(R) ==
    LET sum[Q \in SUBSET R] ==
            IF Q = {} THEN 0
            ELSE LET q == CHOOSE q \in Q : TRUE IN q.points + sum[Q \ {q}]
    IN  sum[R]

\* the order of code points, which is the order of the BINARY collation
CodePoint(c) ==
    CASE c = "A" -> 65 [] c = "B" -> 66 [] c = "C" -> 67 [] c = "A_ACUTE" -> 193

RECURSIVE TextLess(_, _)
TextLess(x, y) ==
    IF y = <<>> THEN FALSE
    ELSE IF x = <<>> THEN TRUE
    ELSE IF Head(x) = Head(y) THEN TextLess(Tail(x), Tail(y))
    ELSE CodePoint(Head(x)) < CodePoint(Head(y))

\* ORDER BY points DESC, t.team_name
Before(x, y) ==
    \/ x.points > y.points
    \/ x.points = y.points /\ TextLess(x.team_name, y.team_name)

RECURSIVE Ordered(_)
Ordered(G) ==
    IF G = {} THEN <<>>
    ELSE LET x == CHOOSE x \in G : \A y \in G \ {x} : Before(x, y)
         IN  <<x>> \o Ordered(G \ {x})

\* get_standings.py calculate_points
calculate_points(s, prefix) ==
    LET like_pattern == prefix \o <<"%">>
        r == UNION {SideRows(s, g, like_pattern) : g \in DOMAIN s.games}
        joined == {x \in r : x.team_id \in DOMAIN s.teams}
        groups == {[team_id |-> t, team_name |-> s.teams[t],
                    points |-> SumPoints({x \in joined : x.team_id = t})] :
                   t \in {x.team_id : x \in joined}}
    IN  Ordered(groups)

(***************************************************************************)
(* SpecStand: calculate_points on every database of two games between     *)
(* three teams, with every prefix of at most MaxPrefix characters.         *)
(***************************************************************************)
StandTeams == (<<"a">> :> TeamAcute) @@ (<<"b">> :> TeamB) @@ (<<"c">> :> TeamC)

StandGames ==
    [facr_game_id : {<<"A", "1">>, <<"B", "1">>},
     home_team_id : {<<"a">>, <<"b">>},
     guest_team_id : {<<"b">>, <<"c">>},
     home_team_goals : {None, Some(0), Some(1)},
     guest_team_goals : {None, Some(0), Some(1)}]

PrefixChars == {"A", "a", "1", "_", "%"}

InitStand ==
    /\ \E g1 \in StandGames, g2 \in StandGames :
          /\ g1.home_team_id # g1.guest_team_id
          /\ g2.home_team_id # g2.guest_team_id
          /\ tables = [EmptyTables EXCEPT !.teams = StandTeams,
                                          !.games = (<<"g1">> :> g1) @@ (<<"g2">> :> g2)]
    /\ league_prefix \in Texts(PrefixChars, MaxPrefix)
    /\ standings = <<>>
    /\ spc = "call"
    /\ txt = <<>> /\ ident = <<>> /\ idpc = "idle"
    /\ html = <<>> /\ parsed = <<>> /\ ppc = "idle"
    /\ MainIdle

CallCalculatePoints ==
    /\ spc = "call"
    /\ standings' = calculate_points(tables, league_prefix)
    /\ spc' = "returned"
    /\ UNCHANGED <<tables, league_prefix, idvars, parsevars, mainvars>>

NextStand == CallCalculatePoints

SpecStand == InitStand /\ [][NextStand]_vars

StartsWith(text, prefix) ==
    Len(prefix) <= Len(text) /\ SubSeq(text, 1, Len(prefix)) = prefix

\* the games of the claim: the facr_game_id starts with the prefix and the
\* goal totals are recorded
Counted(s, prefix) ==
    {g \in DOMAIN s.games :
        /\ StartsWith(s.games[g].facr_game_id, prefix)
        /\ s.games[g].home_team_goals # None
        /\ s.games[g].guest_team_goals # None}

\* 3 for a win, 1 for a draw, 0 for a defeat of team t in game row
GamePoints(row, t) ==
    LET mine == IF row.home_team_id = t THEN row.home_team_goals[1]
                                        ELSE row.guest_team_goals[1]
        theirs == IF row.home_team_id = t THEN row.guest_team_goals[1]
                                          ELSE row.home_team_goals[1]
    IN  IF mine > theirs THEN 3 ELSE IF mine = theirs THEN 1 ELSE 0

RECURSIVE TotalPoints(_, _, _)
TotalPoints(s, G, t) ==
    IF G = {} THEN 0
    ELSE LET g == CHOOSE g \in G : TRUE
         IN  GamePoints(s.games[g], t) + TotalPoints(s, G \ {g}, t)

PlayedBy(s, G, t) ==
    {g \in G : s.games[g].home_team_id = t \/ s.games[g].guest_team_id = t}

\* what the claim says of the rows returned for a database and a prefix
StandingsOf(s, prefix, result) ==
    /\ \A n \in 1..Len(result) :
          result[n].points =
              TotalPoints(s, PlayedBy(s, Counted(s, prefix), result[n].team_id),
                          result[n].team_id)
    /\ \A t \in DOMAIN s.teams :
          PlayedBy(s, Counted(s, prefix), t) # {} =>
              \E n \in 1..Len(result) :
                  result[n].team_id = t /\ result[n].team_name = s.teams[t]
    /\ \A n \in 1..Len(result), m \in 1..Len(result) :
          n < m =>
              \/ result[n].points > result[m].points
              \/ /\ result[n].points = result[m].points
                 /\ TextLess(result[n].team_name, result[m].team_name)

\* C10: calculate_points gives each team 3 points per win, 1 per draw and 0
\* per defeat over the games whose facr_game_id starts with the prefix and
\* whose goal totals are recorded, ordered by points descending, then by
\* team name ascending.
C10_Standings == spc = "returned" => StandingsOf(tables, league_prefix, standings)

\* C10 for the prefixes LIKE reads literally: no % or _, no lowercase letter
C10_StandingsLiteralPrefix ==
    (spc = "returned" /\ \A n \in 1..Len(league_prefix) :
                             league_prefix[n] \in AsciiUpper \cup AsciiDigit) =>
        StandingsOf(tables, league_prefix, standings)

====
